---- MODULE Spec2Model ----
(***************************************************************************)
(* A model of the twoslash-demo library (src/src/lib.rs): the Config       *)
(* builder, process_items and the generic Store.                           *)
(*                                                                         *)
(* Strings are sequences of Unicode code points (a Rust String is a        *)
(* sequence of chars); str::len() is the UTF-8 byte length of that         *)
(* sequence.  Option<T> is a sequence of length 0 (None) or 1 (Some).      *)
(***************************************************************************)
EXTENDS Integers, Sequences, FiniteSets, TLC

VARIABLES config, calls, cfgCall,
          data, log, storeCall,
          items, min_len, result, pc

cfgVars == <<config, calls, cfgCall>>
storeVars == <<data, log, storeCall>>
itemVars == <<items, min_len, result, pc>>
vars == <<config, calls, cfgCall, data, log, storeCall, items, min_len, result, pc>>

(***************************************************************************)
(* Bounds of the model.                                                    *)
(***************************************************************************)
MaxCalls == 3
MaxSets == 3
MaxItems == 3
MaxMinLen == 7

(***************************************************************************)
(* Strings.                                                                *)
(***************************************************************************)
None == <<>>
Some(v) == <<v>>

\* "0.0.0.0:" : the literal part of address()'s format string.
AddressPrefix == <<48, 46, 48, 46, 48, 46, 48, 58>>

\* The code point of a decimal digit.
DigitChar(d) == 48 + d

DecimalDropsZeros(n) ==
    LET RECURSIVE go(_)
        go(m) == IF m < 10 THEN <<DigitChar(m)>>
                 ELSE IF m % 10 = 0 THEN go(m \div 10)
                 ELSE Append(go(m \div 10), DigitChar(m % 10))
    IN go(n)

\* Display for u16, as format!("{}", port) prints it: the decimal digits, most
\* significant first, no sign, no padding.
Decimal(n) ==
    LET RECURSIVE go(_)
        go(m) == IF m < 10 THEN <<DigitChar(m)>>
                 ELSE Append(go(m \div 10), DigitChar(m % 10))
    IN go(n)

\* The UTF-8 width of one char.
Utf8Len(c) == IF c < 128 THEN 1 ELSE IF c < 2048 THEN 2 ELSE IF c < 65536 THEN 3 ELSE 4

\* str::len(): the length in bytes.
RECURSIVE StrLen(_)
StrLen(s) == IF s = <<>> THEN 0 ELSE Utf8Len(Head(s)) + StrLen(Tail(s))

\* char::to_uppercase() on Basic Latin and Latin-1: a-z and the Latin-1 lower
\* case letters move to their capitals, sharp s expands to "SS", micro sign and
\* y-diaeresis have capitals outside Latin-1, everything else is unchanged.
CharToUppercase(c) ==
    IF c >= 97 /\ c <= 122 THEN <<c - 32>>
    ELSE IF c = 223 THEN <<83, 83>>
    ELSE IF c = 181 THEN <<924>>
    ELSE IF c = 255 THEN <<376>>
    ELSE IF c >= 224 /\ c <= 254 /\ c # 247 THEN <<c - 32>>
    ELSE <<c>>

\* str::to_uppercase(): every char replaced by its upper case expansion.
RECURSIVE ToUppercase(_)
ToUppercase(s) ==
    IF s = <<>> THEN <<>> ELSE CharToUppercase(Head(s)) \o ToUppercase(Tail(s))

(***************************************************************************)
(* Config.                                                                 *)
(***************************************************************************)
DefaultPort == 3000

\* Application names: "my-app" and "app" of the doc examples.
Names == { <<109, 121, 45, 97, 112, 112>>, <<97, 112, 112>> }

\* u16 ports: the ends of the range, the digit-count borders, the default and
\* the ports of the doc examples.
Ports == {0, 9, 10, 100, 3000, 8080, 9090, 65535}

Config_new(name) == [name |-> name, port |-> DefaultPort, debug |-> FALSE]

with_port_forgets(c, port) == c

with_port(c, port) == [c EXCEPT !.port = port]

with_debug(c, debug) == [c EXCEPT !.debug = debug]

name(c) == c.name

address(c) == AddressPrefix \o Decimal(c.port)

NoCall == [op |-> "none", ret |-> None]

\* The Config unit: a Config just built by Config::new; the other units rest.
InitConfig ==
    /\ config \in {Config_new(n) : n \in Names}
    /\ calls = <<>>
    /\ cfgCall = NoCall
    /\ data = <<>> /\ log = <<>> /\ storeCall = NoCall
    /\ items = <<>> /\ min_len = 0 /\ result = <<>> /\ pc = "idle"

\* config = config.with_port(port)
CallWithPort ==
    \E port \in Ports :
        /\ Len(calls) < MaxCalls
        /\ config' = with_port(config, port)
        /\ calls' = Append(calls, [op |-> "with_port", arg |-> port])
        /\ cfgCall' = [op |-> "with_port", ret |-> None]

\* config = config.with_debug(debug)
CallWithDebug ==
    \E debug \in BOOLEAN :
        /\ Len(calls) < MaxCalls
        /\ config' = with_debug(config, debug)
        /\ calls' = Append(calls, [op |-> "with_debug", arg |-> debug])
        /\ cfgCall' = [op |-> "with_debug", ret |-> None]

\* config.address()
CallAddress ==
    /\ cfgCall' = [op |-> "address", ret |-> Some(address(config))]
    /\ UNCHANGED <<config, calls>>

\* config.name()
CallName ==
    /\ cfgCall' = [op |-> "name", ret |-> Some(name(config))]
    /\ UNCHANGED <<config, calls>>

(***************************************************************************)
(* Store<K, V>.                                                            *)
(***************************************************************************)
Keys == {"scores", "k1", "k2"}
Values == {"v1", "v2", "v3"}

\* HashMap::new()
Store_new == [k \in {} |-> "v1"]

set_keeps_old(d, key, value) == d @@ (key :> value)

\* HashMap::insert: the key is bound to value, replacing an earlier binding.
set(d, key, value) == (key :> value) @@ d

\* HashMap::get
get(d, key) == IF key \in DOMAIN d THEN Some(d[key]) ELSE None

\* HashMap::contains_key
contains(d, key) == key \in DOMAIN d

\* The Store unit: a Store just built by Store::new; the other units rest.
InitStore ==
    /\ data = Store_new
    /\ log = <<>>
    /\ storeCall = NoCall
    /\ config = [name |-> <<>>, port |-> 0, debug |-> FALSE]
    /\ calls = <<>> /\ cfgCall = NoCall
    /\ items = <<>> /\ min_len = 0 /\ result = <<>> /\ pc = "idle"

\* store.set(key, value)
CallSet ==
    \E key \in Keys, value \in Values :
        /\ Len(log) < MaxSets
        /\ data' = set(data, key, value)
        /\ log' = Append(log, [key |-> key, value |-> value])
        /\ storeCall' = [op |-> "set", key |-> key, ret |-> None]

\* store.get(&key)
CallGet ==
    \E key \in Keys :
        /\ storeCall' = [op |-> "get", key |-> key, ret |-> get(data, key)]
        /\ UNCHANGED <<data, log>>

\* store.contains(&key)
CallContains ==
    \E key \in Keys :
        /\ storeCall' = [op |-> "contains", key |-> key, ret |-> contains(data, key)]
        /\ UNCHANGED <<data, log>>

(***************************************************************************)
(* process_items.                                                          *)
(***************************************************************************)
\* The words of the doc example ("hello", "world", "rust", "is", "great"),
\* the empty string, and two strings whose byte length, char count and upper
\* case form differ: "¡Hola!" (line 297) and "ß".
Words == { <<104, 101, 108, 108, 111>>, <<119, 111, 114, 108, 100>>,
           <<114, 117, 115, 116>>, <<105, 115>>, <<103, 114, 101, 97, 116>>,
           <<>>, <<161, 72, 111, 108, 97, 33>>, <<223>> }

RECURSIVE SeqsUpTo(_, _)
SeqsUpTo(S, n) ==
    IF n = 0 THEN {<<>>}
    ELSE LET shorter == SeqsUpTo(S, n - 1)
         IN shorter \cup {Append(s, x) : s \in {t \in shorter : Len(t) = n - 1}, x \in S}

keeps_longer_only(s, n) == StrLen(s) > n

\* The filter closure: |s| s.len() >= min_len
keeps(s, n) == StrLen(s) >= n

\* items.iter().filter(..).map(|s| s.to_uppercase()).collect()
RECURSIVE process_items(_, _)
process_items(its, n) ==
    IF its = <<>> THEN <<>>
    ELSE IF keeps(Head(its), n)
         THEN <<ToUppercase(Head(its))>> \o process_items(Tail(its), n)
         ELSE process_items(Tail(its), n)

\* The process_items unit: the arguments of one call; the other units rest.
InitItems ==
    /\ items \in SeqsUpTo(Words, MaxItems)
    /\ min_len \in 0..MaxMinLen
    /\ result = <<>>
    /\ pc = "call"
    /\ config = [name |-> <<>>, port |-> 0, debug |-> FALSE]
    /\ calls = <<>> /\ cfgCall = NoCall
    /\ data = <<>> /\ log = <<>> /\ storeCall = NoCall

\* result = process_items(&items, min_len)
CallProcessItems ==
    /\ pc = "call"
    /\ result' = process_items(items, min_len)
    /\ pc' = "done"
    /\ UNCHANGED <<items, min_len>>

(***************************************************************************)
(* Specifications: one per unit of the library.                             *)
(***************************************************************************)
NextConfig ==
    \/ CallWithPort /\ UNCHANGED <<storeVars, itemVars>>
    \/ CallWithDebug /\ UNCHANGED <<storeVars, itemVars>>
    \/ CallAddress /\ UNCHANGED <<storeVars, itemVars>>
    \/ CallName /\ UNCHANGED <<storeVars, itemVars>>

NextStore ==
    \/ CallSet /\ UNCHANGED <<cfgVars, itemVars>>
    \/ CallGet /\ UNCHANGED <<cfgVars, itemVars>>
    \/ CallContains /\ UNCHANGED <<cfgVars, itemVars>>

NextItems == CallProcessItems /\ UNCHANGED <<cfgVars, storeVars>>

SpecConfig == InitConfig /\ [][NextConfig]_vars

SpecStore == InitStore /\ [][NextStore]_vars

SpecItems == InitItems /\ [][NextItems]_vars

(***************************************************************************)
(* Properties of Config (SpecConfig).                                      *)
(***************************************************************************)
Max(S) == CHOOSE m \in S : \A x \in S : x <= m

WithPortCalls(cs) == {i \in 1..Len(cs) : cs[i].op = "with_port"}

\* The port of the most recent with_port call of cs, 3000 when there is none.
LastPortArg(cs) ==
    IF WithPortCalls(cs) = {} THEN 3000 ELSE cs[Max(WithPortCalls(cs))].arg

RECURSIVE DigitsValue(_)
DigitsValue(d) ==
    IF d = <<>> THEN 0
    ELSE 10 * DigitsValue(SubSeq(d, 1, Len(d) - 1)) + (d[Len(d)] - 48)

\* d is the decimal form of n: digits only, no leading zero, of value n.
IsDecimalOf(d, n) ==
    /\ Len(d) >= 1
    /\ \A i \in 1..Len(d) : d[i] >= 48 /\ d[i] <= 57
    /\ Len(d) > 1 => d[1] # 48
    /\ DigitsValue(d) = n

\* C1: after Config::new(name) and any sequence of with_port / with_debug
\* calls, address() returns "0.0.0.0:" followed by the decimal form of the port
\* of the most recent with_port call, "0.0.0.0:3000" when with_port was never
\* called, and "0.0.0.0:9090" after with_port(9090).
C1_AddressIsLastPort ==
    cfgCall.op = "address" =>
        LET r == cfgCall.ret[1]
            p == LastPortArg(calls)
        IN /\ Len(r) > 8
           /\ SubSeq(r, 1, 8) = <<48, 46, 48, 46, 48, 46, 48, 58>>
           /\ IsDecimalOf(SubSeq(r, 9, Len(r)), p)
           /\ p = 9090 => r = <<48, 46, 48, 46, 48, 46, 48, 58, 57, 48, 57, 48>>
           /\ WithPortCalls(calls) = {} =>
                  r = <<48, 46, 48, 46, 48, 46, 48, 58, 51, 48, 48, 48>>

\* address() is called after with_port(8080), with_port(9090), with_debug(TRUE)
\* and returns "0.0.0.0:9090".
C1_Witness ==
    /\ cfgCall.op = "address"
    /\ calls = << [op |-> "with_port", arg |-> 8080],
                  [op |-> "with_port", arg |-> 9090],
                  [op |-> "with_debug", arg |-> TRUE] >>
    /\ cfgCall.ret = Some(<<48, 46, 48, 46, 48, 46, 48, 58, 57, 48, 57, 48>>)

(***************************************************************************)
(* Properties of Store (SpecStore).                                        *)
(***************************************************************************)
SetsOf(lg, k) == {i \in 1..Len(lg) : lg[i].key = k}

\* The value of the most recent set for k in lg, None when k was never set.
LastSet(lg, k) ==
    IF SetsOf(lg, k) = {} THEN None ELSE Some(lg[Max(SetsOf(lg, k))].value)

\* C2: from Store::new() and after any sequence of set calls, get(k) returns
\* the value of the most recent set for k and None for a key never set, and
\* contains(k) is true exactly when get(k) is not None.
C2_GetIsLastSet ==
    /\ \A k \in Keys :
        /\ get(data, k) = LastSet(log, k)
        /\ contains(data, k) <=> get(data, k) # None
    /\ storeCall.op = "get" => storeCall.ret = LastSet(log, storeCall.key)
    /\ storeCall.op = "contains" =>
           /\ storeCall.ret \in BOOLEAN
           /\ storeCall.ret <=> LastSet(log, storeCall.key) # None

\* get("scores") is called after "scores" was set to v1 and then to v2, with k1
\* set in between and k2 never set: it returns v2.
C2_Witness ==
    /\ storeCall = [op |-> "get", key |-> "scores", ret |-> Some("v2")]
    /\ log = << [key |-> "scores", value |-> "v1"],
                [key |-> "k1", value |-> "v3"],
                [key |-> "scores", value |-> "v2"] >>
    /\ get(data, "k2") = None
    /\ ~contains(data, "k2")

(***************************************************************************)
(* Properties of process_items (SpecItems).                                *)
(***************************************************************************)
\* The positions of the items that are at least n bytes long.
LongEnough(its, n) == {i \in 1..Len(its) : StrLen(its[i]) >= n}

\* The k-th smallest member of S.
Nth(S, k) == CHOOSE i \in S : Cardinality({j \in S : j <= i}) = k

\* C3: process_items(items, min_len) is the upper-cased forms of the items of
\* length >= min_len, in their order in items, duplicates kept: as many
\* results as such items, the k-th result the upper case of the k-th of them.
\* ["hello", "is", "rust"] with min_len 3 gives ["HELLO", "RUST"].
C3_FilterThenUppercase ==
    pc = "done" =>
        LET idx == LongEnough(items, min_len)
        IN /\ Len(result) = Cardinality(idx)
           /\ \A k \in 1..Len(result) : result[k] = ToUppercase(items[Nth(idx, k)])
           /\ (items = << <<104, 101, 108, 108, 111>>, <<105, 115>>,
                          <<114, 117, 115, 116>> >> /\ min_len = 3) =>
                  result = << <<72, 69, 76, 76, 79>>, <<82, 85, 83, 84>> >>
           /\ (items = << <<223>>, <<223>> >> /\ min_len = 2) =>
                  result = << <<83, 83>>, <<83, 83>> >>

\* ["¡Hola!", "is", "¡Hola!"] with min_len 7: "¡Hola!" is 6 chars and 7 bytes,
\* so both copies are kept, in upper case, and "is" is dropped.
C3_Witness ==
    /\ pc = "done"
    /\ items = << <<161, 72, 111, 108, 97, 33>>, <<105, 115>>,
                  <<161, 72, 111, 108, 97, 33>> >>
    /\ min_len = 7
    /\ result = << <<161, 72, 79, 76, 65, 33>>, <<161, 72, 79, 76, 65, 33>> >>
====
